---- MODULE Spec2Model ----
(***************************************************************************)
(* gof5: process bootstrap (cmd/gof5/main.go) and configuration resolver   *)
(* (pkg/config/config.go).                                                 *)
(*                                                                         *)
(* A process is identified by its pid.  Invocation i runs as process       *)
(* 2*i-1; the daemon child it may launch runs as process 2*i.  Strings     *)
(* that are trimmed or compared (passwords, file contents) are sequences   *)
(* of one-character strings.                                               *)
(***************************************************************************)
EXTENDS Integers, Sequences, FiniteSets, TLC

VARIABLES goos, args, pc, env, password, passwordFile, deferred, didRead,
          connectPw, exit, pidFile, passFile, rc

vars == <<goos, args, pc, env, password, passwordFile, deferred, didRead,
          connectPw, exit, pidFile, passFile, rc>>

mainVars == <<goos, args, pc, env, password, passwordFile, deferred, didRead,
              connectPw, exit, pidFile, passFile>>

(***************************************************************************)
(* Bounds                                                                  *)
(***************************************************************************)
\* number of invocations of the program by the same user
MaxInv == 2
\* longest password-file content
MaxFileLen == 2

Inv == 1..MaxInv
Proc == 1..(2 * MaxInv)

IsChild(p) == p % 2 = 0
ChildOf(p) == p + 1
ParentOf(p) == p - 1
InvOf(p) == (p + 1) \div 2

(***************************************************************************)
(* Strings                                                                 *)
(***************************************************************************)
Empty == <<>>
WhiteSpace == {" ", "\n"}
FileChars == {"s"} \cup WhiteSpace

RECURSIVE SeqsOfLen(_, _)
SeqsOfLen(S, n) ==
    IF n = 0 THEN {<<>>}
    ELSE {Append(s, c) : s \in SeqsOfLen(S, n - 1), c \in S}

FileContents == UNION {SeqsOfLen(FileChars, n) : n \in 0..MaxFileLen}

RECURSIVE TrimLeft(_)
TrimLeft(s) ==
    IF s # <<>> /\ Head(s) \in WhiteSpace THEN TrimLeft(Tail(s)) ELSE s

RECURSIVE TrimRight(_)
TrimRight(s) ==
    IF s # <<>> /\ s[Len(s)] \in WhiteSpace
    THEN TrimRight(SubSeq(s, 1, Len(s) - 1))
    ELSE s

\* strings.TrimSpace
TrimSpace(s) == TrimRight(TrimLeft(s))

(***************************************************************************)
(* Filesystem and process values                                           *)
(***************************************************************************)
\* the PID marker does not exist
NoPid == 0
\* the password file does not exist
NoFile == [exists |-> FALSE, data |-> <<>>]

\* the path given with --password-file ("" when the flag is absent)
PassPath == "/tmp/p"

\* connectPw of a process that has not called client.Connect
NotCalled == <<"not-called">>
NoExit == [code |-> -1, msg |-> "running"]

Running(p) == pc[p] \notin {"unstarted", "start", "exited"}

(***************************************************************************)
(* Process exit                                                            *)
(***************************************************************************)
Goto(p, label) ==
    /\ pc' = [pc EXCEPT ![p] = label]
    /\ UNCHANGED exit

\* os.Exit(code): the process ends at once, deferred calls do not run
Terminate(p, code, msg) ==
    /\ pc' = [pc EXCEPT ![p] = "exited"]
    /\ exit' = [exit EXCEPT ![p] = [code |-> code, msg |-> msg]]

\* fatal(err): on windows waits for enter, then os.Exit(1); elsewhere
\* log.Fatal, which is os.Exit(1) too
Fatal(p, msg) == Terminate(p, 1, msg)

(***************************************************************************)
(* Flag package                                                            *)
(***************************************************************************)
\* flag.StringVar(p, name, value, usage) stores the default value in *p
StringVar(current, value) == value

\* flag.Parse: a flag present on the command line overwrites the variable
FlagParse(registered, given, absent) ==
    IF given # absent THEN given ELSE registered

(***************************************************************************)
(* main, lines 103-149: daemon-child entry, flags, early checks            *)
(***************************************************************************)
IsDaemonChild(e) == e.DAEMONIZED = "1"

\* line 106: the child takes the password from the handoff variable
EntryPassword(e) == IF IsDaemonChild(e) THEN e.HANDOFF ELSE Empty

\* the handoff variable is left as it was
EntryEnvKept(e) == e

\* line 108: the child clears the handoff variable
EntryEnv(e) ==
    IF IsDaemonChild(e) THEN [e EXCEPT !.HANDOFF = Empty] ELSE e

Entry(p) ==
    /\ pc[p] = "entry"
    /\ LET a == args[InvOf(p)]
           pw == FlagParse(StringVar(EntryPassword(env[p]), Empty),
                           a.password, Empty)
           pf == FlagParse(StringVar("", ""), a.passwordFile, "")
       IN /\ env' = [env EXCEPT ![p] = EntryEnv(env[p])]
          /\ password' = [password EXCEPT ![p] = pw]
          /\ passwordFile' = [passwordFile EXCEPT ![p] = pf]
          /\ IF a.version
             THEN Terminate(p, 0, "version")
             ELSE IF a.profileIndex < 0
             THEN Fatal(p, "profile-index cannot be negative")
             ELSE \E permOk \in BOOLEAN, urlOk \in BOOLEAN :
                    IF ~permOk THEN Fatal(p, "checkPermissions")
                    ELSE IF ~urlOk THEN Fatal(p, "UrlHandlerF5Vpn")
                    ELSE Goto(p, "config")
    /\ UNCHANGED <<goos, args, deferred, didRead, connectPw, pidFile,
                   passFile, rc>>

(***************************************************************************)
(* config.ReadConfig, lines 35-53: effective identity                      *)
(***************************************************************************)
\* the nil *user.User
NilUser == "nil"
Euids == {0, 1000}

IdentityInputs ==
    [euid : Euids,
     sudoUID : {"", "1000"}, lookupIdOk : BOOLEAN,
     sudoUser : {"", "alice"}, lookupOk : BOOLEAN,
     currentOk : BOOLEAN]

\* user.Current()
CurrentUser(in) == IF in.euid = 0 THEN "root" ELSE "alice"

\* usr and whether ReadConfig has returned an error, after lines 35-53
ResolveIdentity(in) ==
    IF in.euid = 0 /\ in.sudoUID # ""
    THEN IF in.lookupIdOk
         THEN [usr |-> "alice", returned |-> FALSE, err |-> ""]
         ELSE IF in.sudoUser # ""
              THEN IF in.lookupOk
                   THEN [usr |-> "alice", returned |-> FALSE, err |-> ""]
                   ELSE [usr |-> NilUser, returned |-> TRUE,
                         err |-> "failed to lookup user name"]
              ELSE [usr |-> NilUser, returned |-> FALSE, err |-> ""]
    ELSE IF in.currentOk
         THEN [usr |-> CurrentUser(in), returned |-> FALSE, err |-> ""]
         ELSE [usr |-> NilUser, returned |-> TRUE,
               err |-> "failed to detect home directory"]

(***************************************************************************)
(* main, lines 151-156: read the configuration                             *)
(***************************************************************************)
\* how the call of ReadConfig ends for main: "ok", a returned error, or a
\* nil dereference of usr (the process ends with status 2)
ReadConfigEnd(in, restOk) ==
    LET id == ResolveIdentity(in)
    IN IF id.returned THEN [code |-> 1, msg |-> id.err]
       ELSE IF id.usr = NilUser
       THEN [code |-> 2, msg |-> "panic: nil pointer dereference"]
       ELSE IF ~restOk THEN [code |-> 1, msg |-> "ReadConfig"]
       ELSE [code |-> 0, msg |-> "ok"]

ReadConfigEnds ==
    {ReadConfigEnd(in, restOk) : in \in IdentityInputs, restOk \in BOOLEAN}

ReadCfg(p) ==
    /\ pc[p] = "config"
    /\ \E end \in ReadConfigEnds :
         IF end.code = 0 THEN Goto(p, "cred")
         ELSE Terminate(p, end.code, end.msg)
    /\ UNCHANGED <<goos, args, env, password, passwordFile, deferred,
                   didRead, connectPw, pidFile, passFile, rc>>

(***************************************************************************)
(* main, lines 158-170: password from file or environment                  *)
(***************************************************************************)
\* whether lines 160-162 call os.ReadFile
ReadsPasswordFile(pw, pf) == pw = Empty /\ pf # ""

\* GOF5_PASSWORD consulted before the password file
ResolvePasswordEnvFirst(pw, pf, data, envPw) ==
    IF pw = Empty
    THEN IF envPw # Empty
         THEN envPw
         ELSE IF pf # "" THEN TrimSpace(data) ELSE pw
    ELSE pw

\* opts.Password after lines 158-170, the file being readable
ResolvePassword(pw, pf, data, envPw) ==
    IF pw = Empty
    THEN IF pf # ""
         THEN TrimSpace(data)
         ELSE IF envPw # Empty THEN envPw ELSE pw
    ELSE pw

Cred(p) ==
    /\ pc[p] = "cred"
    /\ LET reads == ReadsPasswordFile(password[p], passwordFile[p])
       IN /\ didRead' = [didRead EXCEPT ![p] = reads]
          /\ IF reads /\ ~passFile.exists
             THEN /\ Fatal(p, "failed to read password file")
                  /\ UNCHANGED password
             ELSE /\ password' = [password EXCEPT ![p] =
                        ResolvePassword(password[p], passwordFile[p],
                                        passFile.data, env[p].GOF5_PASSWORD)]
                  /\ Goto(p, "writepid")
    /\ UNCHANGED <<goos, args, env, passwordFile, deferred, connectPw,
                   pidFile, passFile, rc>>

(***************************************************************************)
(* main, lines 172-185: PID marker                                         *)
(***************************************************************************)
\* the parent's pid (os.Getppid) written in place of the process's own
PidFileContentPpid(p) == IF IsChild(p) THEN ParentOf(p) ELSE p

\* writePIDFile: strconv.Itoa(os.Getpid())
PidFileContent(p) == p

\* the marker of a live process is not overwritten: the program refuses
WritePIDExclusive(p) ==
    /\ pc[p] = "writepid"
    /\ IF pidFile \in Proc /\ pidFile # p /\ Running(pidFile)
       THEN /\ Fatal(p, "gof5 is already running")
            /\ UNCHANGED <<pidFile, deferred>>
       ELSE /\ pidFile' = PidFileContent(p)
            /\ deferred' = [deferred EXCEPT ![p] = TRUE]
            /\ Goto(p, "daemoncheck")
    /\ UNCHANGED <<goos, args, env, password, passwordFile, didRead,
                   connectPw, passFile, rc>>

WritePID(p) ==
    /\ pc[p] = "writepid"
    /\ \E userOk \in BOOLEAN, writeOk \in BOOLEAN :
         IF ~userOk
         THEN /\ Fatal(p, "failed to get current user")
              /\ UNCHANGED <<pidFile, deferred>>
         ELSE IF ~writeOk
         THEN /\ Fatal(p, "failed to write PID file")
              /\ UNCHANGED <<pidFile, deferred>>
         ELSE /\ pidFile' = PidFileContent(p)
              /\ deferred' = [deferred EXCEPT ![p] = TRUE]
              /\ Goto(p, "daemoncheck")
    /\ UNCHANGED <<goos, args, env, password, passwordFile, didRead,
                   connectPw, passFile, rc>>

(***************************************************************************)
(* main, lines 187-212: daemon mode                                        *)
(***************************************************************************)
\* the daemon branch taken without looking at __GOF5_DAEMONIZED
EntersDaemonBranchAlways(daemon, e) == daemon

\* line 188
EntersDaemonBranch(daemon, e) == daemon /\ e.DAEMONIZED # "1"

\* lines 194-195
HandoffEnv(e, pw) == [e EXCEPT !.HANDOFF = pw, !.DAEMONIZED = "1"]

\* the environment is set before the password is checked
DaemonCheckSetenvFirst(p) ==
    /\ pc[p] = "daemoncheck"
    /\ IF EntersDaemonBranch(args[InvOf(p)].daemon, env[p])
       THEN /\ env' = [env EXCEPT ![p] = HandoffEnv(env[p], password[p])]
            /\ IF password[p] = Empty
               THEN Fatal(p, "password is required for daemon mode")
               ELSE Goto(p, "rmpassfile")
       ELSE /\ Goto(p, "connect")
            /\ UNCHANGED env
    /\ UNCHANGED <<goos, args, password, passwordFile, deferred, didRead,
                   connectPw, pidFile, passFile, rc>>

DaemonCheck(p) ==
    /\ pc[p] = "daemoncheck"
    /\ IF EntersDaemonBranch(args[InvOf(p)].daemon, env[p])
       THEN IF password[p] = Empty
            THEN /\ Fatal(p, "password is required for daemon mode")
                 /\ UNCHANGED env
            ELSE /\ env' = [env EXCEPT ![p] = HandoffEnv(env[p], password[p])]
                 /\ Goto(p, "rmpassfile")
       ELSE /\ Goto(p, "connect")
            /\ UNCHANGED env
    /\ UNCHANGED <<goos, args, password, passwordFile, deferred, didRead,
                   connectPw, pidFile, passFile, rc>>

\* the file is removed whenever a path was given
RemovesPassFileAlways(pf, remove) == pf # ""

\* line 198
RemovesPassFile(pf, remove) == pf # "" /\ remove

\* lines 197-207: os.Remove of a missing file fails, which is only logged.
\* data of a removed file is what it last held.
RemovePassFile(p) ==
    /\ pc[p] = "rmpassfile"
    /\ passFile' = IF RemovesPassFile(passwordFile[p],
                                      args[InvOf(p)].removePassFile)
                   THEN [passFile EXCEPT !.exists = FALSE]
                   ELSE passFile
    /\ Goto(p, "daemonize")
    /\ UNCHANGED <<goos, args, env, password, passwordFile, deferred,
                   didRead, connectPw, pidFile, rc>>

\* daemonize, lines 37-66, and its error path at main lines 210-212.
\* cmd.Start launches the same program with the same arguments and the
\* parent's current environment.
Daemonize(p) ==
    /\ pc[p] = "daemonize"
    /\ IF goos = "windows"
       THEN /\ Fatal(p, "daemon mode is not supported on Windows")
            /\ UNCHANGED env
       ELSE \E logOk \in BOOLEAN, startOk \in BOOLEAN :
              IF ~logOk
              THEN /\ Fatal(p, "failed to open log file")
                   /\ UNCHANGED env
              ELSE IF ~startOk
              THEN /\ Fatal(p, "failed to start daemon process")
                   /\ UNCHANGED env
              ELSE /\ pc' = [pc EXCEPT ![p] = "forked",
                                       ![ChildOf(p)] = "entry"]
                   /\ env' = [env EXCEPT ![ChildOf(p)] = env[p]]
                   /\ UNCHANGED exit
    /\ UNCHANGED <<goos, args, password, passwordFile, deferred, didRead,
                   connectPw, pidFile, passFile, rc>>

\* the parent returns from main, so that the deferred removePIDFile runs
ParentExitReturns(p) ==
    /\ pc[p] = "forked"
    /\ pidFile' = NoPid
    /\ Terminate(p, 0, "daemon launched")
    /\ UNCHANGED <<goos, args, env, password, passwordFile, deferred,
                   didRead, connectPw, passFile, rc>>

\* the parent writes the marker once more before it exits
ParentExitRewrites(p) ==
    /\ pc[p] = "forked"
    /\ pidFile' = PidFileContent(p)
    /\ Terminate(p, 0, "daemon launched")
    /\ UNCHANGED <<goos, args, env, password, passwordFile, deferred,
                   didRead, connectPw, passFile, rc>>

\* daemonize, lines 68-70: logFile.Close(); os.Exit(0)
ParentExit(p) ==
    /\ pc[p] = "forked"
    /\ Terminate(p, 0, "daemon launched")
    /\ UNCHANGED <<goos, args, env, password, passwordFile, deferred,
                   didRead, connectPw, pidFile, passFile, rc>>

(***************************************************************************)
(* main, lines 225-228: Connect, then return from main                     *)
(***************************************************************************)
ConnectCall(p) ==
    /\ pc[p] = "connect"
    /\ connectPw' = [connectPw EXCEPT ![p] = password[p]]
    /\ Goto(p, "connected")
    /\ UNCHANGED <<goos, args, env, password, passwordFile, deferred,
                   didRead, pidFile, passFile, rc>>

\* removePIDFile, lines 90-94: os.Remove(pidPath)
RemovePIDFile(marker) == NoPid

\* Connect returns: an error is fatal; otherwise main returns, the deferred
\* removePIDFile runs and the process exits with status 0
ConnectReturn(p) ==
    /\ pc[p] = "connected"
    /\ \E connectOk \in BOOLEAN :
         IF ~connectOk
         THEN /\ Fatal(p, "Connect")
              /\ UNCHANGED pidFile
         ELSE /\ pidFile' = IF deferred[p] THEN RemovePIDFile(pidFile)
                            ELSE pidFile
              /\ Terminate(p, 0, "done")
    /\ UNCHANGED <<goos, args, env, password, passwordFile, deferred,
                   didRead, connectPw, passFile, rc>>

(***************************************************************************)
(* config.ReadConfig as a sequence of steps over the record rc             *)
(***************************************************************************)
CustomPath == "/etc/gof5/config.yaml"
\* a custom configuration file kept in the user's own dot-directory
CustomHomePath == "/home/alice/.gof5/alt.yaml"
CustomPaths == {"", CustomPath, CustomHomePath}
Dirs == {"/home/alice/.gof5", "/root/.gof5", "/etc/gof5"}
Drivers == {"", "wireguard", "pppd", "openvpn"}
\* a listener address is its four octets; <<>> is the nil net.IP
NoAddr == <<>>
DNSAddrs == {NoAddr, <<10, 0, 0, 1>>}
NoOwner == -1
NoCfg == [Driver |-> "", ListenDNS |-> NoAddr, Path |-> "", CookiePath |-> "",
          Uid |-> 0, Gid |-> 0]

\* usr.HomeDir joined with configDir
HomeConfigDir(usr) ==
    IF usr = "alice" THEN "/home/alice/.gof5" ELSE "/root/.gof5"

\* filepath.Dir(customConfigPath)
DirOf(path) ==
    IF path = CustomHomePath THEN "/home/alice/.gof5" ELSE "/etc/gof5"

\* the ids of root whoever the user is
AtoiRoot(usr) == 0

\* strconv.Atoi(usr.Uid); usr.Gid has the same value in the model
Atoi(usr) == IF usr = "alice" THEN 1000 ELSE 0

RcReturn(result, err) ==
    rc' = [rc EXCEPT !.pc = "returned", !.result = result, !.err = err]

RcPanic == RcReturn("panic", "nil pointer dereference")

\* lines 35-53
RcIdentity ==
    /\ rc.pc = "identity"
    /\ LET id == ResolveIdentity(rc.in)
       IN IF id.returned
          THEN RcReturn("error", id.err)
          ELSE rc' = [rc EXCEPT !.pc = "paths", !.usr = id.usr]
    /\ UNCHANGED mainVars

\* lines 55-66
RcPaths ==
    /\ rc.pc = "paths"
    /\ IF rc.custom # ""
       THEN rc' = [rc EXCEPT !.pc = "ids", !.configFile = rc.custom,
                             !.configPath = DirOf(rc.custom)]
       ELSE IF rc.usr = NilUser
       THEN RcPanic
       ELSE rc' = [rc EXCEPT !.pc = "ids", !.configFile = "config.yaml",
                             !.configPath = HomeConfigDir(rc.usr)]
    /\ UNCHANGED mainVars

\* lines 68-79
RcIds ==
    /\ rc.pc = "ids"
    /\ IF goos # "windows"
       THEN IF rc.usr = NilUser
            THEN RcPanic
            ELSE rc' = [rc EXCEPT !.pc = "configdir", !.uid = Atoi(rc.usr),
                                  !.gid = Atoi(rc.usr)]
       ELSE rc' = [rc EXCEPT !.pc = "configdir"]
    /\ UNCHANGED mainVars

\* the owner is set on every call, whether or not the directory existed
PrepareDirChownsAlways(r, dir, statOk, mkdirOk, chownOk, next) ==
    IF r.owner[dir] = NoOwner /\ ~mkdirOk
    THEN [r EXCEPT !.pc = "returned", !.result = "error",
                   !.err = "failed to create directory"]
    ELSE [r EXCEPT !.pc = next, !.owner[dir] = r.uid,
                   !.mkdirs = IF r.owner[dir] = NoOwner THEN @ + 1 ELSE @,
                   !.chowns = @ + 1,
                   !.created = IF r.owner[dir] = NoOwner THEN @ \cup {dir}
                               ELSE @]

\* os.Stat / os.MkdirAll / os.Chown of one directory, lines 81-94 and
\* 142-154: the record after the step, or the error returned
PrepareDir(r, dir, statOk, mkdirOk, chownOk, next) ==
    IF r.owner[dir] = NoOwner
    THEN IF ~mkdirOk
         THEN [r EXCEPT !.pc = "returned", !.result = "error",
                        !.err = "failed to create directory"]
         ELSE IF goos # "windows"
         THEN IF ~chownOk
              THEN [r EXCEPT !.pc = "returned", !.result = "error",
                             !.err = "failed to set an owner",
                             !.owner[dir] = r.in.euid, !.mkdirs = @ + 1,
                             !.created = @ \cup {dir}]
              ELSE [r EXCEPT !.pc = next, !.owner[dir] = r.uid,
                             !.mkdirs = @ + 1, !.chowns = @ + 1,
                             !.created = @ \cup {dir}]
         ELSE [r EXCEPT !.pc = next, !.owner[dir] = r.in.euid,
                        !.mkdirs = @ + 1, !.created = @ \cup {dir}]
    ELSE IF ~statOk
    THEN [r EXCEPT !.pc = "returned", !.result = "error",
                   !.err = "failed to get directory stat"]
    ELSE [r EXCEPT !.pc = next]

\* lines 81-94
RcConfigDir ==
    /\ rc.pc = "configdir"
    /\ \E statOk \in BOOLEAN, mkdirOk \in BOOLEAN, chownOk \in BOOLEAN :
         rc' = PrepareDir(rc, rc.configPath, statOk, mkdirOk, chownOk, "load")
    /\ UNCHANGED mainVars

SupportedDrivers == {"wireguard", "pppd"}

\* the general default on every platform
DefaultDNSNoBSD == <<127, 0, 0, 245>>

\* lines 25-27 and 126-134: 0xf5 is 245
DefaultDNS == IF goos \in {"freebsd", "darwin"} THEN <<127, 0, 0, 1>>
              ELSE <<127, 0, 0, 245>>

\* lines 107-110
DriverOrDefault(read) == IF read = "" THEN "wireguard" ELSE read

\* lines 96-134
RcLoad ==
    /\ rc.pc = "load"
    /\ IF rc.doc.state = "garbled"
       THEN RcReturn("error", "cannot parse file")
       ELSE LET read == IF rc.doc.state = "ok" THEN rc.doc.driver ELSE ""
                dns == IF rc.doc.state = "ok" THEN rc.doc.dns ELSE NoAddr
                driver == DriverOrDefault(read)
            IN IF driver = "wireguard" /\ ~rc.winTunOk
               THEN RcReturn("error", "checkWinTunDriver")
               ELSE IF driver = "pppd" /\ goos = "windows"
               THEN RcReturn("error",
                             "pppd driver is not supported in Windows")
               ELSE IF driver \notin SupportedDrivers
               THEN RcReturn("error", "driver is unsupported")
               ELSE rc' = [rc EXCEPT
                       !.pc = "cookie",
                       !.cfg.Driver = driver,
                       !.cfg.ListenDNS = IF dns = NoAddr THEN DefaultDNS
                                         ELSE dns,
                       !.cfg.Path = rc.configPath]
    /\ UNCHANGED mainVars

\* the cookies kept next to the configuration file
CookieDirOfConfig(usr, configPath) == configPath

\* line 139: always ~/.gof5
CookieDir(usr, configPath) == HomeConfigDir(usr)

\* lines 136-162
RcCookie ==
    /\ rc.pc = "cookie"
    /\ IF rc.usr = NilUser
       THEN RcPanic
       ELSE LET cookiePath == CookieDir(rc.usr, rc.configPath)
                fin(r) == IF r.pc = "returned" THEN r
                          ELSE [r EXCEPT !.pc = "returned", !.result = "ok",
                                         !.cfg.CookiePath = cookiePath,
                                         !.cfg.Uid = r.uid, !.cfg.Gid = r.gid]
            IN IF cookiePath # rc.configPath
               THEN \E statOk \in BOOLEAN, mkdirOk \in BOOLEAN,
                       chownOk \in BOOLEAN :
                      rc' = fin(PrepareDir(rc, cookiePath, statOk, mkdirOk,
                                           chownOk, "fin"))
               ELSE rc' = fin(rc)
    /\ UNCHANGED mainVars

\* ReadConfig is called again with the same arguments and environment
\* after the first call has returned a Config
RcAgain ==
    /\ rc.pc = "returned" /\ rc.result = "ok" /\ rc.call = 1
    /\ rc' = [rc EXCEPT !.pc = "identity", !.call = 2, !.first = rc.cfg,
                        !.cfg = NoCfg, !.result = "none", !.usr = NilUser,
                        !.configPath = "", !.configFile = "",
                        !.uid = 0, !.gid = 0,
                        !.mkdirs = 0, !.chowns = 0, !.created = {}]
    /\ UNCHANGED mainVars

(***************************************************************************)
(* Initial states                                                          *)
(***************************************************************************)
\* command line, settings document (daemon) and invoking environment
ArgSets ==
    [password : {Empty, <<"f">>},
     passwordFile : {"", PassPath},
     removePassFile : BOOLEAN,
     version : BOOLEAN,
     profileIndex : {-1, 0},
     daemon : BOOLEAN,
     envPassword : {Empty, <<"e">>},
     via : {"shell"}]

\* what the supervisor's start runs: password in GOF5_PASSWORD only
SupervisedArgs ==
    [password : {Empty},
     passwordFile : {""},
     removePassFile : {FALSE},
     version : {FALSE},
     profileIndex : {0},
     daemon : BOOLEAN,
     envPassword : {<<"e">>},
     via : {"supervisor"}]

\* the same command line typed into a shell, without the supervisor
DirectArgs == {[a EXCEPT !.via = "shell"] : a \in SupervisedArgs}

NoArgs == [password |-> Empty, passwordFile |-> "", removePassFile |-> FALSE,
           version |-> FALSE, profileIndex |-> 0, daemon |-> FALSE,
           envPassword |-> Empty, via |-> "shell"]

PassFiles == {NoFile} \cup {[exists |-> TRUE, data |-> d] : d \in FileContents}

StartEnv(a) ==
    [DAEMONIZED |-> "", HANDOFF |-> Empty, GOF5_PASSWORD |-> a.envPassword]

\* the settings document: absent, unparsable, or parsed into its keys
Docs ==
    {[state |-> st, driver |-> "", dns |-> NoAddr] :
        st \in {"absent", "garbled"}}
    \cup {[state |-> "ok", driver |-> dr, dns |-> a] :
            dr \in Drivers, a \in DNSAddrs}

\* no call of ReadConfig is being followed
RcIdle == [pc |-> "idle"]

RcStart ==
    [pc |-> "identity", in |-> CHOOSE in \in IdentityInputs : TRUE,
     custom |-> "", doc |-> [state |-> "absent", driver |-> "", dns |-> NoAddr],
     winTunOk |-> TRUE, usr |-> NilUser, configPath |-> "",
     configFile |-> "", uid |-> 0, gid |-> 0,
     owner |-> [d \in Dirs \cup {""} |-> NoOwner],
     owner0 |-> [d \in Dirs \cup {""} |-> NoOwner],
     mkdirs |-> 0, chowns |-> 0, created |-> {},
     cfg |-> NoCfg, result |-> "none", err |-> "",
     call |-> 1, first |-> NoCfg]

\* the invocations in `started` have been launched and have run nothing yet
InitProcs(started) ==
    /\ pc = [p \in Proc |->
               IF IsChild(p) \/ InvOf(p) \notin started THEN "unstarted"
               ELSE IF args[InvOf(p)].via = "supervisor" THEN "start"
               ELSE "entry"]
    /\ env = [p \in Proc |-> StartEnv(args[InvOf(p)])]
    /\ password = [p \in Proc |-> Empty]
    /\ passwordFile = [p \in Proc |-> ""]
    /\ deferred = [p \in Proc |-> FALSE]
    /\ didRead = [p \in Proc |-> FALSE]
    /\ connectPw = [p \in Proc |-> NotCalled]
    /\ exit = [p \in Proc |-> NoExit]
    /\ pidFile = NoPid

\* one invocation, any command line
Init ==
    /\ goos \in {"linux", "windows"}
    /\ args \in [Inv -> ArgSets \cup {NoArgs}]
    /\ \A i \in Inv : i # 1 => args[i] = NoArgs
    /\ args[1] \in ArgSets
    /\ passFile \in PassFiles
    /\ InitProcs({1})
    /\ rc = RcIdle

\* every invocation begun: all through the supervisor, or all from a shell
InitRace ==
    /\ goos \in {"linux", "windows"}
    /\ \/ args \in [Inv -> SupervisedArgs]
       \/ args \in [Inv -> DirectArgs]
    /\ passFile = NoFile
    /\ InitProcs(Inv)
    /\ rc = RcIdle

\* the directories in `existing` exist, owned by the invoking user
InitOwners(in, existing) ==
    [d \in Dirs \cup {""} |->
       IF d \in existing THEN Atoi(CurrentUser(in)) ELSE NoOwner]

\* one call of ReadConfig
InitConfig ==
    /\ goos \in {"linux", "windows", "darwin", "freebsd"}
    /\ args = [i \in Inv |-> NoArgs]
    /\ passFile = NoFile
    /\ InitProcs({})
    /\ \E in \in IdentityInputs, custom \in CustomPaths, doc \in Docs,
          winTunOk \in BOOLEAN, existing \in SUBSET Dirs :
         \* a settings document exists only inside an existing directory
         /\ doc.state # "absent" =>
              \/ custom # "" /\ DirOf(custom) \in existing
              \/ custom = "" /\ HomeConfigDir(ResolveIdentity(in).usr)
                                   \in existing
         /\ rc = [RcStart EXCEPT
                    !.in = in, !.custom = custom, !.doc = doc,
                    !.winTunOk = winTunOk,
                    !.owner = InitOwners(in, existing),
                    !.owner0 = InitOwners(in, existing)]

(***************************************************************************)
(* run_gof5.sh, start, lines 9-31: the supervisor's check, then its launch *)
(* of the program with the password in GOF5_PASSWORD                       *)
(***************************************************************************)
AlreadyRunning == "gof5 is already running"

\* lines 11-17: the marker exists and kill -0 of the pid it holds succeeds
MarkerLive == pidFile \in Proc /\ Running(pidFile)

SupervisorStart(p) ==
    /\ pc[p] = "start"
    /\ IF MarkerLive
       THEN Terminate(p, 1, AlreadyRunning)
       ELSE IF env[p].GOF5_PASSWORD = Empty
       THEN Terminate(p, 1, "GOF5_PASSWORD environment variable is required")
       ELSE Goto(p, "entry")
    /\ UNCHANGED <<goos, args, env, password, passwordFile, deferred,
                   didRead, connectPw, pidFile, passFile, rc>>

(***************************************************************************)
(* The password file is rewritten by its owner                             *)
(***************************************************************************)
RewritePasswordFile ==
    /\ passFile.exists
    /\ \E d \in FileContents :
         /\ d # passFile.data
         /\ passFile' = [passFile EXCEPT !.data = d]
    /\ UNCHANGED <<goos, args, pc, env, password, passwordFile, deferred,
                   didRead, connectPw, exit, pidFile, rc>>

(***************************************************************************)
(* Specifications                                                          *)
(***************************************************************************)
Step(p) ==
    \/ Entry(p)
    \/ ReadCfg(p)
    \/ Cred(p)
    \/ WritePID(p)
    \/ DaemonCheck(p)
    \/ RemovePassFile(p)
    \/ Daemonize(p)
    \/ ParentExit(p)
    \/ ConnectCall(p)
    \/ ConnectReturn(p)

Next == \E p \in Proc : Step(p)

NextRewrite == Next \/ RewritePasswordFile

NextRace == Next \/ \E p \in Proc : SupervisorStart(p)

NextConfig ==
    \/ RcIdentity
    \/ RcPaths
    \/ RcIds
    \/ RcConfigDir
    \/ RcLoad
    \/ RcCookie
    \/ RcAgain

Spec == Init /\ [][Next]_vars
SpecRace == InitRace /\ [][NextRace]_vars
SpecRewrite == Init /\ [][NextRewrite]_vars
SpecConfig == InitConfig /\ [][NextConfig]_vars

(***************************************************************************)
(* Claims                                                                  *)
(***************************************************************************)
Started(p) == pc[p] # "unstarted"
FatalRead == "failed to read password file"
FatalNoPassword == "password is required for daemon mode"

\* C1: a daemon child passes to Connect the password its parent put in the
\* credential-handoff variable, whatever the flag default, the password file
\* and GOF5_PASSWORD hold.
C1_ChildConnectsWithHandoff ==
    \A c \in Proc :
        IsChild(c) /\ connectPw[c] # NotCalled
            => connectPw[c] = env[ParentOf(c)].HANDOFF

\* C2: a daemon child never reads the password file, and so never fails on a
\* password file its parent has deleted.
C2_ChildNeverReadsPasswordFile ==
    \A c \in Proc :
        IsChild(c) => ~didRead[c] /\ exit[c].msg # FatalRead

\* C3: once a process that wrote the PID marker has exited, otherwise than as
\* the parent that launched its child, the marker it wrote is gone.
C3_MarkerRemovedOnEveryExit ==
    \A p \in Proc :
        pc[p] = "exited" /\ deferred[p] /\ exit[p].msg # "daemon launched"
            => pidFile # PidFileContent(p)

\* an instance is active from its marker write until it exits
Active(p) == Running(p) /\ deferred[p]

\* the marker is absent or holds the pid of a process that is not running
MarkerStale == pidFile \notin Proc \/ ~Running(pidFile)

\* C4 as stated: whenever the marker is absent or stale, no instance is
\* active, under any interleaving of invocations.
C4_StaleMarkerMeansNoInstance ==
    MarkerStale => \A p \in Proc : ~Active(p)

\* no process outside invocation i has written the marker
OnlyWriter(i) == \A q \in Proc : InvOf(q) # i => ~deferred[q]

\* C4 as amended: while only one invocation has written the marker,
\* whenever the marker is absent or stale no process of that invocation is
\* active, except a parent that has launched its child and not yet exited.
C4_StaleMarkerMeansNoInstanceAlone ==
    \A i \in Inv :
        OnlyWriter(i) /\ MarkerStale
            => \A p \in Proc :
                   InvOf(p) = i => ~(Active(p) /\ pc[p] # "forked")

\* a daemon child has exited with an error and left a stale marker while
\* no other invocation has written it
C4_Witness ==
    \E c \in Proc :
        /\ IsChild(c) /\ OnlyWriter(InvOf(c))
        /\ pc[c] = "exited" /\ exit[c].msg = "Connect"
        /\ pidFile = PidFileContent(c)
        /\ pc[ParentOf(c)] = "exited"

\* p has gone through the daemon-mode check of line 188
PastDaemonCheck(p) == deferred[p] /\ pc[p] # "daemoncheck"

\* C5: a process with daemon mode requested, the daemon marker not set and
\* an empty resolved password ends with the fatal "password is required for
\* daemon mode" error, launches no child and sets neither the handoff nor
\* the daemon-marker variable.
C5_NoPasswordNoFork ==
    \A p \in Proc :
        /\ ~IsChild(p)
        /\ args[InvOf(p)].daemon
        /\ password[p] = Empty
        /\ PastDaemonCheck(p)
        => /\ pc[p] = "exited"
           /\ exit[p] = [code |-> 1, msg |-> FatalNoPassword]
           /\ ~Started(ChildOf(p))
           /\ env[p].HANDOFF = Empty
           /\ env[p].DAEMONIZED = ""

\* daemon mode with an empty password: a whitespace-only password file
\* while GOF5_PASSWORD is set
C5_Witness ==
    \E p \in Proc :
        /\ ~IsChild(p) /\ args[InvOf(p)].daemon
        /\ exit[p].msg = FatalNoPassword
        /\ passwordFile[p] # "" /\ env[p].GOF5_PASSWORD # Empty

\* C6: the only step a parent takes after launching its child is to exit
\* with status 0; that step leaves the PID marker as it is, and the parent
\* has not called Connect.  Until the child writes the marker, the marker
\* holds what the parent wrote before the launch.
C6_ParentExitLeavesMarker ==
    /\ [](\A p \in Proc :
            /\ pc[p] = "forked" \/ exit[p].msg = "daemon launched"
            /\ ~deferred[ChildOf(p)]
            /\ OnlyWriter(InvOf(p))
            => pidFile = PidFileContent(p))
    /\ [][\A p \in Proc :
            pc[p] = "forked" /\ pc'[p] # pc[p]
               => /\ pc'[p] = "exited"
                  /\ exit'[p].code = 0
                  /\ pidFile' = pidFile
                  /\ connectPw'[p] = NotCalled]_vars

\* a parent has exited after the launch and its marker is still there
C6_Witness ==
    \E p \in Proc :
        /\ pc[p] = "exited" /\ exit[p].msg = "daemon launched"
        /\ pidFile = PidFileContent(p)

\* the password the claim expects from flag, file content and environment:
\* each later source is used whenever the earlier ones gave nothing
PasswordByFallThrough(a, data) ==
    IF a.password # Empty THEN a.password
    ELSE IF a.passwordFile # "" /\ TrimSpace(data) # Empty
    THEN TrimSpace(data)
    ELSE a.envPassword

\* the password by the order flag, then file if a path was given, then
\* environment only when no path was given
PasswordByFirstSource(a, data) ==
    IF a.password # Empty THEN a.password
    ELSE IF a.passwordFile # "" THEN TrimSpace(data)
    ELSE a.envPassword

\* p, not a daemon child, has resolved its password and the password file
\* is as it was read
Resolved(p) == ~IsChild(p) /\ pc[p] \in {"writepid", "daemoncheck"}

\* C7 as stated: flag, then trimmed file, then GOF5_PASSWORD, a later source
\* being used whenever the password is still empty after the earlier ones.
C7_PasswordFallsThrough ==
    \A p \in Proc :
        Resolved(p)
            => password[p] = PasswordByFallThrough(args[InvOf(p)],
                                                   passFile.data)

\* C7 as amended: GOF5_PASSWORD is used only when the flag is empty and no
\* password-file path was given; with a path the trimmed content is the
\* password even when it is empty.
C7_PasswordFirstSource ==
    \A p \in Proc :
        Resolved(p)
            => password[p] = PasswordByFirstSource(args[InvOf(p)],
                                                   passFile.data)

\* a whitespace-only file was read while GOF5_PASSWORD is set
C7_Witness ==
    \E p \in Proc :
        /\ Resolved(p) /\ didRead[p]
        /\ passFile.data # Empty /\ TrimSpace(passFile.data) = Empty
        /\ env[p].GOF5_PASSWORD # Empty
        /\ password[p] = Empty

\* C8: with remove-password-file given and the password file read, the file
\* no longer exists when Connect is invoked, in every mode.
C8_FileRemovedAfterRead ==
    \A p \in Proc :
        /\ pc[p] = "connected"
        /\ didRead[p]
        /\ args[InvOf(p)].removePassFile
        => ~passFile.exists

\* C9: the handoff variable is non-empty only in a parent between setting
\* it and exiting and in a child that has not run yet; it is empty in the
\* child from its entry step on, and in every process that does not enter
\* the daemon branch.
C9_HandoffDoesNotPersist ==
    \A p \in Proc :
        /\ Running(p) /\ env[p].HANDOFF # Empty
             => \/ ~IsChild(p) /\ pc[p] \in {"rmpassfile", "daemonize",
                                            "forked"}
                \/ IsChild(p) /\ pc[p] = "entry"
        /\ IsChild(p) /\ pc[p] # "entry" /\ Started(p)
             => env[p].HANDOFF = Empty
        /\ ~IsChild(p) /\ ~args[InvOf(p)].daemon
             => env[p].HANDOFF = Empty

\* a child that received a password through the handoff variable is inside
\* Connect
C9_Witness ==
    \E c \in Proc :
        /\ IsChild(c) /\ pc[c] = "connected"
        /\ env[ParentOf(c)].HANDOFF # Empty
        /\ env[c].HANDOFF = Empty

\* C10: once the identity step of ReadConfig is over without a resolved
\* user, ReadConfig has returned an error.
C10_UnresolvedIdentityReturnsError ==
    rc.pc \notin {"idle", "identity"} /\ rc.usr = NilUser
        => rc.pc = "returned" /\ rc.result = "error"

(***************************************************************************)
(* Claims about ReadConfig                                                 *)
(***************************************************************************)
RcOk == rc.pc = "returned" /\ rc.result = "ok"
DocDriver == IF rc.doc.state = "ok" THEN rc.doc.driver ELSE ""
DocDNS == IF rc.doc.state = "ok" THEN rc.doc.dns ELSE NoAddr

\* C11: a Config returned by ReadConfig has a driver in {wireguard, pppd}
\* and a listener address; an explicit driver or address of the document is
\* kept, an unset driver is wireguard, an unset address is 127.0.0.1 on
\* freebsd/darwin and 127.0.0.245 elsewhere; pppd on windows and a driver
\* outside the set are never returned.
C11_DriverAndDNSResolved ==
    /\ RcOk =>
         /\ rc.cfg.Driver \in {"wireguard", "pppd"}
         /\ rc.cfg.ListenDNS # NoAddr
         /\ DocDriver # "" => rc.cfg.Driver = DocDriver
         /\ DocDriver = "" => rc.cfg.Driver = "wireguard"
         /\ DocDNS # NoAddr => rc.cfg.ListenDNS = DocDNS
         /\ DocDNS = NoAddr =>
              rc.cfg.ListenDNS = IF goos \in {"freebsd", "darwin"}
                                 THEN <<127, 0, 0, 1>>
                                 ELSE <<127, 0, 0, 245>>
    /\ /\ rc.pc = "returned"
       /\ \/ DocDriver \notin {"", "wireguard", "pppd"}
          \/ DocDriver = "pppd" /\ goos = "windows"
       => rc.result # "ok"

\* a document naming pppd and no address was resolved on darwin
C11_Witness ==
    /\ RcOk /\ goos = "darwin"
    /\ DocDriver = "pppd" /\ DocDNS = NoAddr
    /\ rc.cfg.ListenDNS = <<127, 0, 0, 1>>

\* ReadConfig failed on a driver outside the supported set
C11_WitnessUnsupported ==
    /\ rc.pc = "returned" /\ rc.err = "driver is unsupported"
    /\ DocDriver = "openvpn"

\* C12: whatever the configuration-file path, the cookie directory of a
\* returned Config is the .gof5 directory under the resolved user's home,
\* which differs from the custom path's directory unless that directory is
\* this very one, and the directory exists.
C12_CookieDirUnderHome ==
    RcOk =>
        /\ rc.cfg.CookiePath = HomeConfigDir(rc.usr)
        /\ rc.owner[rc.cfg.CookiePath] # NoOwner
        /\ rc.custom # "" /\ DirOf(rc.custom) # HomeConfigDir(rc.usr)
             => /\ rc.cfg.CookiePath # DirOf(rc.custom)
                /\ rc.cfg.Path = DirOf(rc.custom)

\* with a custom path outside the home, the cookie directory was created
C12_Witness ==
    /\ RcOk /\ rc.custom = CustomPath
    /\ rc.cfg.CookiePath \in rc.created
    /\ rc.cfg.Path = "/etc/gof5"

StatFailed == rc.err = "failed to get directory stat"

\* C13: a second ReadConfig call with the same arguments and environment,
\* after a first call that returned a Config, creates no directory and
\* changes no owner, and, os.Stat of the directories succeeding as the
\* first call left them, returns a Config equal to the first.
C13_SecondCallIdempotent ==
    rc.pc # "idle" /\ rc.call = 2 =>
        /\ rc.mkdirs = 0 /\ rc.chowns = 0 /\ rc.created = {}
        /\ rc.pc = "returned" /\ ~StatFailed
             => rc.result = "ok" /\ rc.cfg = rc.first

\* the second call has returned after a first call that created a directory
C13_Witness ==
    /\ rc.pc = "returned" /\ rc.call = 2 /\ rc.result = "ok"
    /\ \E d \in Dirs : rc.owner0[d] = NoOwner /\ rc.owner[d] # NoOwner

\* running as root with SUDO_UID naming a user that user.LookupId finds
SudoValid == rc.in.euid = 0 /\ rc.in.sudoUID # "" /\ rc.in.lookupIdOk
PastIdentity == rc.pc \notin {"idle", "identity"} /\ rc.call = 1
ChownFailed == rc.err = "failed to set an owner"

\* C14 as stated: as root with a valid SUDO_UID the resolved identity is
\* that user; off windows every directory ReadConfig creates is owned by
\* that user's ids, never 0/0; existing directories keep their owner.
C14_CreatedDirsOwnedBySudoUser ==
    SudoValid /\ PastIdentity =>
        /\ rc.usr = "alice"
        /\ goos # "windows" => \A d \in rc.created : rc.owner[d] = 1000
        /\ \A d \in Dirs \ rc.created : rc.owner[d] = rc.owner0[d]

\* C14 as amended: the same, except that a directory whose Chown failed
\* stays as MkdirAll created it, owned by root, ReadConfig returning the
\* "failed to set an owner" error.
C14_CreatedDirsOwnedUnlessChownFails ==
    SudoValid /\ PastIdentity =>
        /\ rc.usr = "alice"
        /\ goos # "windows" /\ ~ChownFailed
             => \A d \in rc.created : rc.owner[d] = 1000
        /\ goos # "windows" /\ ChownFailed
             => /\ rc.pc = "returned" /\ rc.result = "error"
                /\ \E d \in rc.created : rc.owner[d] = 0
        /\ \A d \in Dirs \ rc.created : rc.owner[d] = rc.owner0[d]

\* under sudo both directories were created for the user and /root/.gof5,
\* which existed, is still root's
C14_Witness ==
    /\ SudoValid /\ RcOk /\ rc.call = 1 /\ goos = "linux"
    /\ rc.created = {"/etc/gof5", "/home/alice/.gof5"}
    /\ \A d \in rc.created : rc.owner[d] = 1000
    /\ rc.owner["/root/.gof5"] = 0

(***************************************************************************)
(* Claims about the daemon child and the marker                            *)
(***************************************************************************)
FatalWritePID == "failed to write PID file"

\* C15 as stated: a daemon child whose write of the PID marker fails only
\* logs a warning; it does not end on that failure and goes on to Connect.
C15_ChildPidWriteFailureNotFatal ==
    \A c \in Proc : IsChild(c) => exit[c].msg # FatalWritePID

\* C16: in a daemonizing run on its own the parent has written the marker
\* before the child is launched, and from the child's write until the child
\* exits the marker holds the child's pid, never the parent's.
C16_MarkerHoldsChildPid ==
    \A c \in Proc : IsChild(c) =>
        /\ Started(c) => deferred[ParentOf(c)]
        /\ deferred[c] /\ Running(c)
             => /\ pidFile = PidFileContent(c)
                /\ pidFile # PidFileContent(ParentOf(c))

\* the child has written the marker while its parent has not yet exited
C16_Witness ==
    \E c \in Proc :
        /\ IsChild(c) /\ deferred[c] /\ Running(c)
        /\ pc[ParentOf(c)] = "forked"
        /\ pidFile = PidFileContent(c)

Forked(p) == pc[p] = "forked" \/ exit[p].msg = "daemon launched"
CalledConnect(p) == connectPw[p] # NotCalled

\* C17: a process started with __GOF5_DAEMONIZED = "1" never enters the
\* daemon branch, so it launches no child whatever its daemon setting; an
\* invocation forks at most once, and parent and child never both call
\* Connect.
C17_DaemonChildNeverForks ==
    /\ \A c \in Proc :
         IsChild(c) => /\ pc[c] \notin {"rmpassfile", "daemonize", "forked"}
                       /\ ~Forked(c)
                       /\ ~(CalledConnect(c) /\ CalledConnect(ParentOf(c)))
    /\ \A i \in Inv : Cardinality({p \in Proc : InvOf(p) = i /\ Forked(p)}) <= 1

\* a child whose settings still say daemon: true has called Connect
C17_Witness ==
    \E c \in Proc :
        /\ IsChild(c) /\ pc[c] = "connected"
        /\ args[InvOf(c)].daemon /\ IsDaemonChild(env[c])
        /\ Forked(ParentOf(c)) /\ ~CalledConnect(ParentOf(c))

(***************************************************************************)
(* Claims about invocations that interleave                                *)
(***************************************************************************)
Wrote(p) == pc[p] = "writepid" /\ pc'[p] = "daemoncheck"

\* C18: nothing enforces a single instance.  The only liveness check is the
\* supervisor's, a step of its own taken before the program is launched; the
\* program never refuses to run because of the marker, and each write of the
\* marker overwrites it with the writer's pid, so that the marker holds the
\* pid of the last writer only.
C18_NoExclusionLastWriterWins ==
    [][/\ \A p \in Proc :
            /\ pc[p] = "start" /\ pc'[p] = "entry" => ~MarkerLive
            /\ exit'[p].msg = AlreadyRunning /\ exit[p] = NoExit
                 => pc[p] = "start" /\ MarkerLive
            /\ Wrote(p) => pidFile' = p
            /\ pc[p] = "writepid" /\ pc'[p] = "exited"
                 => exit'[p].msg \in {"failed to get current user",
                                      FatalWritePID}
       /\ pidFile' \notin {pidFile, NoPid}
            => \E p \in Proc : Wrote(p) /\ pidFile' = p]_vars

\* two invocations, both launched through the supervisor, have both called
\* Connect and are active together; the marker names only the second
C18_Witness ==
    \E p, q \in Proc :
        /\ InvOf(p) # InvOf(q)
        /\ args[InvOf(p)].via = "supervisor"
        /\ args[InvOf(q)].via = "supervisor"
        /\ pc[p] = "connected" /\ pc[q] = "connected"
        /\ Active(p) /\ Active(q)
        /\ pidFile = q

\* the same with both invocations typed into a shell
C18_WitnessDirect ==
    \E p, q \in Proc :
        /\ InvOf(p) # InvOf(q)
        /\ args[InvOf(p)].via = "shell" /\ args[InvOf(q)].via = "shell"
        /\ pc[p] = "connected" /\ pc[q] = "connected"
        /\ Active(p) /\ Active(q)
        /\ pidFile = q

(***************************************************************************)
(* Claims about the daemonization steps                                    *)
(***************************************************************************)
FatalWindows == "daemon mode is not supported on Windows"

\* C19 as stated: a process that fails with the Windows error has performed
\* no transition step: it has set neither __GOF5_PASSWORD nor
\* __GOF5_DAEMONIZED and has not deleted the password file.
C19_WindowsFailsBeforeTransition ==
    \A p \in Proc :
        exit[p].msg = FatalWindows =>
            /\ env[p].HANDOFF = Empty
            /\ env[p].DAEMONIZED = ""
            /\ passFile.exists \/ passFile = NoFile

Deleted == passFile.exists /\ ~passFile'.exists
RemoveStep(p) == pc[p] = "rmpassfile" /\ pc'[p] = "daemonize"

====
